---- MODULE Spec2Model ----
(***************************************************************************)
(* Model of the catalog transform service in src/backend/app.py: the       *)
(* /transform handler (template lookup, mapping and cleanup parsing, table *)
(* normalisation, image index, product-value aggregation, header) and the  *)
(* lazily consumed CSV stream (byte-order mark, header, one chunk per      *)
(* emitted row).                                                           *)
(*                                                                         *)
(* Text is a sequence of one-character strings, so that trimming,          *)
(* whitespace collapsing and number parsing are computed, not assumed.     *)
(* Column names and field keys are atomic strings; lower() is a table over *)
(* the names that occur.  Python's 0-based row index is kept in idx; the   *)
(* 1-based sequences are read at idx + 1.                                  *)
(***************************************************************************)
EXTENDS Integers, Sequences, FiniteSets, TLC

\* ------------------------------------------------------------------ bounds

\* Largest number of data rows of an uploaded table.
MaxRows == 2

\* ------------------------------------------------------------ text helpers

Digits == <<"0", "1", "2", "3", "4", "5", "6", "7", "8", "9">>

IsDigit(c) == \E d \in 1..10 : Digits[d] = c

DigitVal(c) == (CHOOSE d \in 1..10 : Digits[d] = c) - 1

AllDigits(s) == \A i \in 1..Len(s) : IsDigit(s[i])

RECURSIVE DecVal(_)
DecVal(s) == IF s = <<>> THEN 0
             ELSE 10 * DecVal(SubSeq(s, 1, Len(s) - 1)) + DigitVal(s[Len(s)])

\* str(i) for a non-negative integer.
RECURSIVE py_str(_)
py_str(i) == IF i < 10 THEN <<Digits[i + 1]>>
             ELSE py_str(i \div 10) \o <<Digits[(i % 10) + 1]>>

\* str.strip(): remove leading and trailing whitespace.
RECURSIVE lstrip(_)
lstrip(s) == IF s # <<>> /\ Head(s) = " " THEN lstrip(Tail(s)) ELSE s

RECURSIVE rstrip(_)
rstrip(s) == IF s # <<>> /\ s[Len(s)] = " "
             THEN rstrip(SubSeq(s, 1, Len(s) - 1)) ELSE s

strip(s) == rstrip(lstrip(s))

\* s.split(sep)[-1]: the text after the last occurrence of sep.
RECURSIVE split_last(_, _)
split_last(s, sep) ==
    IF s = <<>> THEN <<>>
    ELSE IF s[Len(s)] = sep THEN <<>>
    ELSE split_last(SubSeq(s, 1, Len(s) - 1), sep) \o <<s[Len(s)]>>

Unsigned(s) == IF s # <<>> /\ Head(s) \in {"+", "-"} THEN Tail(s) ELSE s

Sign(s) == IF s # <<>> /\ Head(s) = "-" THEN -1 ELSE 1

\* int(text): optional sign and decimal digits, surrounding whitespace
\* ignored; anything else raises.
py_int(s) ==
    LET t == strip(s)
        u == Unsigned(t)
    IN  IF u # <<>> /\ AllDigits(u)
        THEN [ok |-> TRUE, v |-> Sign(t) * DecVal(u)]
        ELSE [ok |-> FALSE, v |-> 0]

DotAt(u) == IF \E i \in 1..Len(u) : u[i] = "."
            THEN CHOOSE i \in 1..Len(u) :
                     u[i] = "." /\ \A j \in 1..(i - 1) : u[j] # "."
            ELSE Len(u) + 1

\* int(float(text)) on plain decimal literals: optional sign, digits with at
\* most one point and at least one digit; the fraction is truncated toward
\* zero.  Every other text of the alphabet raises.
int_float(s) ==
    LET t == strip(s)
        u == Unsigned(t)
        d == DotAt(u)
        whole == SubSeq(u, 1, d - 1)
        frac == SubSeq(u, d + 1, Len(u))
    IN  IF AllDigits(whole) /\ AllDigits(frac) /\ Len(whole) + Len(frac) > 0
        THEN [ok |-> TRUE, v |-> Sign(t) * DecVal(whole)]
        ELSE [ok |-> FALSE, v |-> 0]

\* " ".join(s.split()): the words of s separated by single spaces.
RECURSIVE collapse(_)
collapse(s) ==
    IF s = <<>> THEN <<>>
    ELSE IF Head(s) = " "
         THEN IF Len(s) > 1 /\ s[2] = " " THEN collapse(Tail(s))
              ELSE <<" ">> \o collapse(Tail(s))
         ELSE <<Head(s)>> \o collapse(Tail(s))

\* clean_text_value on text that holds no mojibake, entity or markup
\* character (none is in the alphabet of the modelled cells): what remains
\* of the pipeline is the whitespace normalisation.
clean_text_value(val) == strip(collapse(val))

\* ------------------------------------------------------ program constants

VARIANT_LEVEL_SHOPIFY_HEADERS ==
    { "Variant SKU", "Variant Price", "Variant Compare At Price", "Variant Barcode",
      "Variant Inventory Qty", "Variant Grams", "Variant Weight", "Variant Weight Unit",
      "Variant Tax Code", "Variant Fulfillment Service", "Variant Requires Shipping",
      "Variant Taxable", "Variant Title", "Variant Image",
      "Option1 Value", "Option2 Value", "Option3 Value",
      "Cost per item", "Inventory Policy", "Inventory Qty", "Inventory Item ID",
      "Inventory Tracker" }

\* Smallest and largest image position collect_images keeps.
MinImagePos == 1
MaxImagePos == 5

\* str.lower() on the column names that occur in the modelled requests.
lower(name) ==
    CASE name = "Handle" -> "handle"
      [] name = "Image Src" -> "image src"
      [] name = "Image Position" -> "image position"
      [] name = "Variant SKU" -> "variant sku"
      [] name = "Title" -> "title"
      [] name = "Missing" -> "missing"
      [] OTHER -> name

\* ------------------------------------------------------------ dictionaries

\* Optional values: None is the empty sequence, a value v is <<v>>.
None == <<>>
Some(v) == <<v>>

EmptyDict == <<>>

DictGet(d, k, default) == IF k \in DOMAIN d THEN d[k] ELSE default

DictSet(d, k, v) == [x \in (DOMAIN d) \cup {k} |-> IF x = k THEN v ELSE d[x]]

\* Mutant of json_loads: text that is no JSON is taken for an empty object.
json_loads_lenient(field) ==
    IF field.text = "json" THEN [ok |-> TRUE, value |-> field.value]
    ELSE [ok |-> TRUE, value |-> EmptyDict]

\* json.loads on a form field: the field either holds a JSON document or
\* text that is no JSON (json.loads raises).
json_loads(field) ==
    IF field.text = "json" THEN [ok |-> TRUE, value |-> field.value]
    ELSE [ok |-> FALSE, value |-> EmptyDict]

\* --------------------------------------------------------------- the table

\* A DataFrame: the ordered column names, the row count, the cells by name.
nrows(df) == df.n

\* normalize_headers: the cell "nan" becomes the empty string.
NanText == <<"n", "a", "n">>

normalize_headers(df) ==
    [df EXCEPT !.data =
        [c \in DOMAIN df.data |->
            [i \in 1..df.n |-> IF df.data[c][i] = NanText THEN <<>> ELSE df.data[c][i]]]]

\* Mutant of get_col: a name that matches no column yields the first column.
get_col_or_first(df, name) ==
    IF \E i \in 1..Len(df.columns) : df.columns[i] = name
    THEN Some(name)
    ELSE IF \E i \in 1..Len(df.columns) : lower(df.columns[i]) = lower(name)
         THEN Some(df.columns[CHOOSE i \in 1..Len(df.columns) :
                                  /\ lower(df.columns[i]) = lower(name)
                                  /\ \A j \in (i + 1)..Len(df.columns) :
                                         lower(df.columns[j]) # lower(name)])
         ELSE Some(df.columns[1])

\* get_col: exact match first, then the case-insensitive fallback, where the
\* dict comprehension keeps the last column of each lowered name.
get_col(df, name) ==
    IF \E i \in 1..Len(df.columns) : df.columns[i] = name
    THEN Some(name)
    ELSE IF \E i \in 1..Len(df.columns) : lower(df.columns[i]) = lower(name)
         THEN LET last == CHOOSE i \in 1..Len(df.columns) :
                              /\ lower(df.columns[i]) = lower(name)
                              /\ \A j \in (i + 1)..Len(df.columns) :
                                     lower(df.columns[j]) # lower(name)
              IN  Some(df.columns[last])
         ELSE None

\* col.iloc[idx] for a resolved column, idx counted from 0.
iloc(df, col, idx) == df.data[col[1]][idx + 1]

\* The transform's cleanup loop: clean_text_value over every cell of each
\* named column that resolves.
RECURSIVE apply_cleanup(_, _)
apply_cleanup(df, cols) ==
    IF cols = <<>> THEN df
    ELSE LET col_ser == get_col(df, Head(cols))
             cleaned == IF col_ser = None THEN df
                        ELSE [df EXCEPT !.data[col_ser[1]] =
                                 [i \in 1..df.n |-> clean_text_value(@[i])]]
         IN  apply_cleanup(cleaned, Tail(cols))

\* The cleanup column list of a request: none for an empty field, and none
\* when the field is no JSON or has no "columns" (the except branch).
parse_cleanup(field) ==
    IF field.text = "empty" THEN <<>>
    ELSE LET j == json_loads(field)
         IN  IF j.ok THEN DictGet(j.value, "columns", <<>>) ELSE <<>>

\* ------------------------------------------------------------ image index

\* Mutant of pos_in_range: the upper end of the range is not tested.
pos_in_range_no_upper(pos) == ~(pos < MinImagePos)

\* The position test of collect_images.
pos_in_range(pos) == ~(pos < MinImagePos \/ pos > MaxImagePos)

\* One iteration of the loop of collect_images on row i.
collect_images_row(images_by_handle, df, handle_col, src_col, pos_col, i) ==
    LET handle == strip(iloc(df, handle_col, i))
        url == strip(iloc(df, src_col, i))
        pos_raw == strip(iloc(df, pos_col, i))
        pos == int_float(pos_raw)
    IN  IF handle = <<>> \/ url = <<>> \/ pos_raw = <<>> THEN images_by_handle
        ELSE IF ~pos.ok THEN images_by_handle
        ELSE IF ~pos_in_range(pos.v) THEN images_by_handle
        ELSE LET slot == DictGet(images_by_handle, handle, EmptyDict)
             IN  IF pos.v \in DOMAIN slot
                 THEN DictSet(images_by_handle, handle, slot)
                 ELSE DictSet(images_by_handle, handle, DictSet(slot, pos.v, url))

RECURSIVE collect_images_loop(_, _, _, _, _)
collect_images_loop(df, handle_col, src_col, pos_col, k) ==
    IF k = 0 THEN EmptyDict
    ELSE collect_images_row(collect_images_loop(df, handle_col, src_col, pos_col, k - 1),
                            df, handle_col, src_col, pos_col, k - 1)

collect_images(df) ==
    LET handle_col == get_col(df, "Handle")
        src_col == get_col(df, "Image Src")
        pos_col == get_col(df, "Image Position")
    IN  IF handle_col = None \/ src_col = None \/ pos_col = None THEN EmptyDict
        ELSE collect_images_loop(df, handle_col, src_col, pos_col, nrows(df))

\* ---------------------------------------------------------- template store

AutoMap(p) == <<"p", "o", "s", "i", "t", "i", "o", "n", "=">> \o p

NoAutoMap == <<>>

Field(k, l, t, a) == [key |-> k, label |-> l, type |-> t, autoMap |-> a]

\* read_templates(): the template documents by templateKey.  "shop_b" has
\* no exportRules; "shop_c" names an auto-image field as its required field.
read_templates ==
    [ shop_a |->
        [ templateKey |-> "shop_a",
          fields |-> << Field("sku", "SKU", "text", NoAutoMap),
                        Field("title", "Title", "text", NoAutoMap),
                        Field("img1", "Image 1", "image", AutoMap(<<"1">>)),
                        Field("note", "Note", "text", NoAutoMap),
                        Field("img2", "Image 2", "image", AutoMap(<<"2">>)) >>,
          exportRules |-> [ requiredFieldKey |-> "sku",
                            dropRowIfBlankKeys |-> <<"sku">> ] ],
      shop_b |->
        [ templateKey |-> "shop_b",
          fields |-> << Field("img1", "Image 1", "image", AutoMap(<<"1">>)),
                        Field("img0", "Image 0", "image", AutoMap(<<"0">>)),
                        Field("imgx", "Image X", "image", AutoMap(<<"x">>)),
                        Field("pic", "Picture", "image", NoAutoMap),
                        Field("title", "Title", "text", AutoMap(<<"2">>)),
                        Field("sku", "SKU", "text", NoAutoMap) >> ],
      shop_c |->
        [ templateKey |-> "shop_c",
          fields |-> << Field("img1", "Image 1", "image", AutoMap(<<"1">>)),
                        Field("sku", "SKU", "text", NoAutoMap) >>,
          exportRules |-> [ requiredFieldKey |-> "img1",
                            dropRowIfBlankKeys |-> <<"img1">> ] ] ]

SeqToSet(q) == {q[i] : i \in 1..Len(q)}

export_rules_of(tpl) == DictGet(tpl, "exportRules", EmptyDict)

required_key_of(tpl) == DictGet(export_rules_of(tpl), "requiredFieldKey", "sku")

drop_if_blank_of(tpl) ==
    SeqToSet(DictGet(export_rules_of(tpl), "dropRowIfBlankKeys", <<>>))

\* ------------------------------------------------- partition of the fields

\* The position of an auto-image field: the integer after the last "=" of
\* autoMap, None when it is no integer.
auto_pos_of(f) ==
    LET p == py_int(split_last(f.autoMap, "="))
    IN  IF p.ok THEN Some(p.v) ELSE None

\* The branch test of the partition loop: autoMap set and type image.
is_auto_branch(f) == f.autoMap # <<>> /\ f.type = "image"

\* Whether the mapping supplies a non-empty source name for key k.
is_mapped_key(mapping_obj, k) == k \in DOMAIN mapping_obj /\ mapping_obj[k] # ""

RECURSIVE auto_image_fields_of(_)
auto_image_fields_of(fields) ==
    IF fields = <<>> THEN <<>>
    ELSE LET f == Head(fields)
             pos == auto_pos_of(f)
         IN  (IF is_auto_branch(f) /\ pos # None /\ pos[1] # 0
              THEN <<[key |-> f.key, pos |-> pos[1], label |-> f.label]>>
              ELSE <<>>) \o auto_image_fields_of(Tail(fields))

RECURSIVE mapped_fields_of(_, _)
mapped_fields_of(fields, mapping_obj) ==
    IF fields = <<>> THEN <<>>
    ELSE LET f == Head(fields)
         IN  (IF ~is_auto_branch(f) /\ is_mapped_key(mapping_obj, f.key)
              THEN <<[key |-> f.key, src |-> mapping_obj[f.key], label |-> f.label]>>
              ELSE <<>>) \o mapped_fields_of(Tail(fields), mapping_obj)

KeysOf(recs) == {recs[i].key : i \in 1..Len(recs)}

\* next(x for x in recs if x.key == k, None)
first_with_key(recs, k) ==
    IF k \in KeysOf(recs)
    THEN Some(recs[CHOOSE i \in 1..Len(recs) :
                       recs[i].key = k /\ \A j \in 1..(i - 1) : recs[j].key # k])
    ELSE None

\* Mutant of required_is_mapped: the validation is left out.
required_is_mapped_unchecked(required, mapped) == TRUE

\* The validation of the required field.
required_is_mapped(required, mapped) == required \in KeysOf(mapped)

\* Mutant of in_header: the header leaves the auto-image fields out.
in_header_mapped_only(f, mapped, auto) == f.key \in KeysOf(mapped)

\* Whether a template field puts its label in the output header.
in_header(f, mapped, auto) == f.key \in KeysOf(mapped) \/ f.key \in KeysOf(auto)

RECURSIVE output_headers_of(_, _, _)
output_headers_of(fields, mapped, auto) ==
    IF fields = <<>> THEN <<>>
    ELSE (IF in_header(Head(fields), mapped, auto) THEN <<Head(fields).label>> ELSE <<>>)
         \o output_headers_of(Tail(fields), mapped, auto)

\* ------------------------------------------------ handles and aggregation

RowPrefix == <<"_", "_", "r", "o", "w", "_", "_">>

\* The Handle column, or one placeholder handle per row when it is absent.
handle_series_of(df) ==
    LET col == get_col(df, "Handle")
    IN  IF col = None THEN [i \in 1..nrows(df) |-> RowPrefix \o py_str(i - 1)]
        ELSE df.data[col[1]]

is_variant(src) == src \in VARIANT_LEVEL_SHOPIFY_HEADERS

\* Mutant of values_by_handle_row: a later value replaces the recorded one.
values_by_handle_row_last_wins(values_by_handle, handle, val) ==
    IF val = <<>> THEN values_by_handle
    ELSE DictSet(values_by_handle, handle, val)

\* Mutant of values_by_handle_row: a blank first value is recorded too.
values_by_handle_row_keep_blank(values_by_handle, handle, val) ==
    IF handle \in DOMAIN values_by_handle THEN values_by_handle
    ELSE DictSet(values_by_handle, handle, val)

\* One iteration of the loop that finds the first non-empty value per
\* handle: a later value never replaces a recorded one.
values_by_handle_row(values_by_handle, handle, val) ==
    IF val = <<>> THEN values_by_handle
    ELSE IF handle \in DOMAIN values_by_handle THEN values_by_handle
    ELSE DictSet(values_by_handle, handle, val)

RECURSIVE values_by_handle_loop(_, _, _, _)
values_by_handle_loop(df, handles, src_col, k) ==
    IF k = 0 THEN EmptyDict
    ELSE values_by_handle_row(values_by_handle_loop(df, handles, src_col, k - 1),
                              handles[k], strip(iloc(df, src_col, k - 1)))

\* product_values.setdefault(h, {})[key] = v for every h of values.
store_values(product, values, key) ==
    [h \in (DOMAIN product) \cup (DOMAIN values) |->
        IF h \in DOMAIN values
        THEN DictSet(DictGet(product, h, EmptyDict), key, values[h])
        ELSE product[h]]

RECURSIVE product_values_loop(_, _, _, _)
product_values_loop(df, handles, mapped, k) ==
    IF k = 0 THEN EmptyDict
    ELSE LET prev == product_values_loop(df, handles, mapped, k - 1)
             mi == mapped[k]
             src_col == get_col(df, mi.src)
         IN  IF is_variant(mi.src) THEN prev
             ELSE IF src_col = None THEN prev
             ELSE store_values(prev,
                               values_by_handle_loop(df, handles, src_col, nrows(df)),
                               mi.key)

product_values_of(df, handles, mapped) ==
    product_values_loop(df, handles, mapped, Len(mapped))

\* ------------------------------------------------------------ row emission

\* Mutant of sku_val_of: the cell is not trimmed before the blank test.
sku_val_of_untrimmed(df, mapped, required, i) ==
    LET m == first_with_key(mapped, required)
        sku_src == IF m = None THEN "" ELSE m[1].src
        col == IF sku_src # "" THEN get_col(df, sku_src) ELSE None
    IN  IF col # None THEN iloc(df, col, i) ELSE <<>>

\* The value rows_iter computes first for the drop rule: the trimmed cell of
\* the required field's source column at idx, empty when it does not resolve.
sku_val_of(df, mapped, required, i) ==
    LET m == first_with_key(mapped, required)
        sku_src == IF m = None THEN "" ELSE m[1].src
        col == IF sku_src # "" THEN get_col(df, sku_src) ELSE None
    IN  IF col # None THEN strip(iloc(df, col, i)) ELSE <<>>

\* The drop rule: a blank value and the required key in dropRowIfBlankKeys.
row_dropped(sku_val, required, drop) == sku_val = <<>> /\ required \in drop

\* The value of a mapped field m on row i of the product with this handle.
mapped_value(df, product, handle, m, i) ==
    LET src_col == get_col(df, m.src)
    IN  IF src_col # None /\ is_variant(m.src) THEN strip(iloc(df, src_col, i))
        ELSE IF handle \in DOMAIN product /\ m.key \in DOMAIN product[handle]
             THEN product[handle][m.key]
             ELSE IF src_col # None THEN strip(iloc(df, src_col, i)) ELSE <<>>

\* The value of an auto-image field: the url of (handle, pos), else empty.
image_value(imgs, handle, pos) ==
    IF handle \in DOMAIN imgs /\ pos \in DOMAIN imgs[handle]
    THEN imgs[handle][pos] ELSE <<>>

\* What one template field appends to the output row: one value or nothing.
field_values(f, df, imgs, product, mapped, auto, handle, i) ==
    LET m == first_with_key(mapped, f.key)
        ai == first_with_key(auto, f.key)
    IN  IF m # None THEN <<mapped_value(df, product, handle, m[1], i)>>
        ELSE IF ai # None THEN <<image_value(imgs, handle, ai[1].pos)>>
        ELSE <<>>

RECURSIVE out_row_of(_, _, _, _, _, _, _, _)
out_row_of(fields, df, imgs, product, mapped, auto, handle, i) ==
    IF fields = <<>> THEN <<>>
    ELSE field_values(Head(fields), df, imgs, product, mapped, auto, handle, i)
         \o out_row_of(Tail(fields), df, imgs, product, mapped, auto, handle, i)

\* ------------------------------------------------------------ the requests

Json(v) == [text |-> "json", value |-> v]
NotJson == [text |-> "bad", value |-> EmptyDict]
EmptyField == [text |-> "empty", value |-> EmptyDict]

\* Every assignment of cells to the columns: one cell per row from the
\* column's domain.
RECURSIVE DataSets(_, _, _)
DataSets(cols, n, dom) ==
    IF cols = <<>> THEN {EmptyDict}
    ELSE {(Head(cols) :> c) @@ rest :
              c \in [1..n -> dom[Head(cols)]], rest \in DataSets(Tail(cols), n, dom)}

Tables(cols, dom) ==
    UNION {{[columns |-> cols, n |-> n, data |-> d] : d \in DataSets(cols, n, dom)} :
               n \in 0..MaxRows}

Request(f, k, m, c) == [file |-> f, templateKey |-> k, mapping |-> m, textCleanup |-> c]

\* A family of requests: the uploads over some columns and cell domains,
\* with every template key, mapping field and cleanup field of the family.
Family(cols, cells, keys, mappings, cleanups) ==
    [cols |-> cols, cells |-> cells, keys |-> keys, mappings |-> mappings,
     cleanups |-> cleanups]

\* Aggregation requests: handles that differ only by whitespace, a variant
\* level SKU column and a product level Title column, mappings that resolve
\* exactly or by the case-insensitive fallback.
AggCells ==
    ("Handle" :> {<<"A">>, <<" ", "A">>}) @@
    ("Variant SKU" :> {<<>>, <<"s">>, <<" ", "t">>}) @@
    ("variant sku" :> {<<>>, <<"s">>, <<" ", "t">>}) @@
    ("Title" :> {<<" ">>, <<"p">>, <<"q", " ">>})

AggMappings ==
    { Json(("sku" :> "Variant SKU") @@ ("title" :> "Title")),
      Json(("sku" :> "variant sku") @@ ("title" :> "title")),
      Json(("sku" :> "Title") @@ ("note" :> "Variant SKU")) }

\* Requests whose mapping names a column the table lacks, for the required
\* field or for another one.
AbsentCells ==
    ("Handle" :> {<<"A">>, <<" ", "A">>}) @@
    ("Variant SKU" :> {<<>>, <<"s">>}) @@
    ("Title" :> {<<" ">>, <<"p">>, <<"q", " ">>})

AbsentMappings ==
    { Json(("sku" :> "Missing") @@ ("title" :> "Title")),
      Json(("sku" :> "Variant SKU") @@ ("title" :> "Missing") @@ ("pic" :> "Title")) }

\* The same without a Handle column (placeholder handles), with the SKU
\* header in lower case, and with a field mapped to the absent Handle.
NoHandleMappings ==
    { Json(("sku" :> "Variant SKU") @@ ("title" :> "Title") @@ ("note" :> "Handle")),
      Json(("sku" :> "Title") @@ ("title" :> "Variant SKU")) }

\* Image requests: padded and plain handles, distinct urls, positions that
\* are whole, fractional, too small or too large.
ImgCells ==
    ("Handle" :> {<<"A">>, <<" ", "A">>}) @@
    ("handle" :> {<<"A">>}) @@
    ("Image Src" :> {<<"u">>, <<" ", "v">>}) @@
    ("image src" :> {<<"u">>}) @@
    ("Image Position" :> {<<"1">>, <<"2", ".", "9">>, <<"0", ".", "9">>, <<"6">>}) @@
    ("Variant SKU" :> {<<"s">>})

\* Image requests with blank cells: blank handles and urls, positions that
\* are blank or no number; rows the drop rule skips.
BlankImgCells ==
    ("Handle" :> {<<>>, <<"A">>}) @@
    ("Image Src" :> {<<>>, <<"u">>}) @@
    ("Image Position" :> {<<" ">>, <<"1", ".", "0">>, <<"x">>}) @@
    ("Variant SKU" :> {<<>>, <<"s">>})

ImgMappings == { Json("sku" :> "Variant SKU") }

\* Configuration requests: unknown template, mapping or cleanup field that
\* is no JSON, required field unmapped, cleanup of existing and of absent
\* columns, and the cell "nan".
CfgCells ==
    ("Handle" :> {<<"A">>, <<"A", " ">>}) @@
    ("Variant SKU" :> {<<"s">>, NanText}) @@
    ("Title" :> {<<"p", " ", " ", "q">>})

CfgMappings ==
    { Json(("sku" :> "Variant SKU") @@ ("title" :> "Title")),
      Json(("title" :> "Title")),
      Json(("sku" :> "") @@ ("title" :> "Title")),
      Json(("img1" :> "Title")),
      Json(EmptyDict),
      NotJson }

CfgCleanups ==
    { EmptyField,
      NotJson,
      Json("other" :> <<>>),
      Json("columns" :> <<"Handle">>),
      Json("columns" :> <<"title", "Missing">>) }

Families ==
    << Family(<<"Handle", "Variant SKU", "Title">>, AggCells,
              {"shop_a", "shop_b"}, AggMappings, {EmptyField}),
       Family(<<"Handle", "Variant SKU", "Title">>, AbsentCells,
              {"shop_a", "shop_b"}, AbsentMappings, {EmptyField}),
       Family(<<"Variant SKU", "Title">>, AggCells,
              {"shop_a", "shop_b"}, NoHandleMappings, {EmptyField}),
       Family(<<"variant sku", "Title">>, AggCells,
              {"shop_a", "shop_b"}, NoHandleMappings, {EmptyField}),
       Family(<<"Handle", "Image Src", "Image Position", "Variant SKU">>, ImgCells,
              {"shop_a", "shop_b"}, ImgMappings, {EmptyField}),
       Family(<<"Handle", "Image Src", "Image Position", "Variant SKU">>, BlankImgCells,
              {"shop_a"}, ImgMappings, {EmptyField}),
       Family(<<"Handle", "Image Src", "Variant SKU">>, ImgCells,
              {"shop_a"}, ImgMappings, {EmptyField}),
       Family(<<"handle", "Image Position", "image src", "Variant SKU">>, ImgCells,
              {"shop_a"}, ImgMappings, {EmptyField}),
       Family(<<"Handle", "Variant SKU", "Title">>, CfgCells,
              {"shop_a", "shop_b", "shop_c", "shop_x"}, CfgMappings, CfgCleanups) >>

\* ---------------------------------------------------------------- the state

VARIABLES
    pc,                 \* "idle", "error", "response", "bom", "rows", "done"
    request,            \* the form fields and the parsed upload of the request
    status,             \* HTTP status of the answer, 0 before there is one
    detail,             \* the HTTPException's message
    tpl,                \* the template of the request
    required_key,
    drop_if_blank,
    cleanup_cols,
    df,                 \* the table after normalize_headers and the cleanup
    images,
    auto_image_fields,
    mapped_fields,
    output_headers,
    handle_series,
    product_values,
    idx,                \* rows_iter's row index
    out,                \* the chunks iter_bytes has yielded
    emitted             \* the row index each yielded row chunk came from

vars == <<pc, request, status, detail, tpl, required_key, drop_if_blank, cleanup_cols,
          df, images, auto_image_fields, mapped_fields, output_headers, handle_series,
          product_values, idx, out, emitted>>

NoTable == [columns |-> <<>>, n |-> 0, data |-> EmptyDict]

NoTemplate == [templateKey |-> "", fields |-> <<>>]

NoRequest == Request(NoTable, "", NotJson, EmptyField)

Init ==
    /\ pc = "idle"
    /\ request = NoRequest
    /\ status = 0
    /\ detail = <<>>
    /\ tpl = NoTemplate
    /\ required_key = ""
    /\ drop_if_blank = {}
    /\ cleanup_cols = <<>>
    /\ df = NoTable
    /\ images = EmptyDict
    /\ auto_image_fields = <<>>
    /\ mapped_fields = <<>>
    /\ output_headers = <<>>
    /\ handle_series = <<>>
    /\ product_values = EmptyDict
    /\ idx = 0
    /\ out = <<>>
    /\ emitted = <<>>

\* raise HTTPException(400, msg): the request ends with no response body
\* iterator; nothing the handler computed survives it.
Raise(req, msg) ==
    /\ pc' = "error"
    /\ request' = req
    /\ status' = 400
    /\ detail' = msg
    /\ UNCHANGED <<tpl, required_key, drop_if_blank, cleanup_cols, df, images,
                   auto_image_fields, mapped_fields, output_headers, handle_series,
                   product_values, idx, out, emitted>>

\* The handler from "Read CSV into DataFrame" on, for a known template and
\* a parsed mapping.
Reshape(req, t, mapping_obj) ==
    LET cols == parse_cleanup(req.textCleanup)
        table == apply_cleanup(normalize_headers(req.file), cols)
        auto == auto_image_fields_of(t.fields)
        mapped == mapped_fields_of(t.fields, mapping_obj)
        handles == handle_series_of(table)
    IN  IF ~required_is_mapped(required_key_of(t), mapped)
        THEN Raise(req, <<"Required field '", required_key_of(t), "' must be mapped.">>)
        ELSE /\ pc' = "response"
             /\ request' = req
             /\ status' = 200
             /\ detail' = <<>>
             /\ tpl' = t
             /\ required_key' = required_key_of(t)
             /\ drop_if_blank' = drop_if_blank_of(t)
             /\ cleanup_cols' = cols
             /\ df' = table
             /\ images' = collect_images(table)
             /\ auto_image_fields' = auto
             /\ mapped_fields' = mapped
             /\ output_headers' = output_headers_of(t.fields, mapped, auto)
             /\ handle_series' = handles
             /\ product_values' = product_values_of(table, handles, mapped)
             /\ UNCHANGED <<idx, out, emitted>>

\* POST /transform: the whole handler, up to the StreamingResponse it
\* returns or the HTTPException it raises.
transform ==
    /\ pc = "idle"
    /\ \E i \in 1..Len(Families) :
       \E file \in Tables(Families[i].cols, Families[i].cells),
          templateKey \in Families[i].keys,
          mapping \in Families[i].mappings,
          textCleanup \in Families[i].cleanups :
          LET req == Request(file, templateKey, mapping, textCleanup)
              tpls == read_templates
              m == json_loads(req.mapping)
          IN  IF req.templateKey \notin DOMAIN tpls
              THEN Raise(req, <<"Unknown templateKey">>)
              ELSE IF ~m.ok
                   THEN Raise(req, <<"Invalid mapping JSON">>)
                   ELSE Reshape(req, tpls[req.templateKey], m.value)

\* iter_bytes: the byte-order mark is the first chunk.
iter_bytes_bom ==
    /\ pc = "response"
    /\ pc' = "bom"
    /\ out' = Append(out, [kind |-> "bom", cells |-> <<>>])
    /\ UNCHANGED <<request, status, detail, tpl, required_key, drop_if_blank,
                   cleanup_cols, df, images, auto_image_fields, mapped_fields,
                   output_headers, handle_series, product_values, idx, emitted>>

\* iter_bytes: the header row is the second chunk.
iter_bytes_header ==
    /\ pc = "bom"
    /\ pc' = "rows"
    /\ out' = Append(out, [kind |-> "header", cells |-> output_headers])
    /\ UNCHANGED <<request, status, detail, tpl, required_key, drop_if_blank,
                   cleanup_cols, df, images, auto_image_fields, mapped_fields,
                   output_headers, handle_series, product_values, idx, emitted>>

sku_val == sku_val_of(df, mapped_fields, required_key, idx)

\* rows_iter: a row the drop rule skips.
rows_iter_drop ==
    /\ pc = "rows"
    /\ idx < nrows(df)
    /\ row_dropped(sku_val, required_key, drop_if_blank)
    /\ idx' = idx + 1
    /\ UNCHANGED <<pc, request, status, detail, tpl, required_key, drop_if_blank,
                   cleanup_cols, df, images, auto_image_fields, mapped_fields,
                   output_headers, handle_series, product_values, out, emitted>>

\* rows_iter yields a row and iter_bytes writes it as one chunk.
rows_iter_yield ==
    /\ pc = "rows"
    /\ idx < nrows(df)
    /\ ~row_dropped(sku_val, required_key, drop_if_blank)
    /\ out' = Append(out, [kind |-> "row",
                           cells |-> out_row_of(tpl.fields, df, images, product_values,
                                                mapped_fields, auto_image_fields,
                                                handle_series[idx + 1], idx)])
    /\ emitted' = Append(emitted, idx)
    /\ idx' = idx + 1
    /\ UNCHANGED <<pc, request, status, detail, tpl, required_key, drop_if_blank,
                   cleanup_cols, df, images, auto_image_fields, mapped_fields,
                   output_headers, handle_series, product_values>>

\* rows_iter is exhausted: the stream ends.
rows_iter_end ==
    /\ pc = "rows"
    /\ idx = nrows(df)
    /\ pc' = "done"
    /\ UNCHANGED <<request, status, detail, tpl, required_key, drop_if_blank,
                   cleanup_cols, df, images, auto_image_fields, mapped_fields,
                   output_headers, handle_series, product_values, idx, out, emitted>>

Next ==
    \/ transform
    \/ iter_bytes_bom
    \/ iter_bytes_header
    \/ rows_iter_drop
    \/ rows_iter_yield
    \/ rows_iter_end

Spec == Init /\ [][Next]_vars

\* ------------------------------------------------ vocabulary of the claims

\* The emitted rows, in order: row j came from table row emitted[j] and is
\* the chunk after the byte-order mark, the header and the rows before it.
Rows == 1..Len(emitted)

RowCells(j) == out[j + 2].cells

RowIndices == 0..(nrows(df) - 1)

IsEmitted(i) == \E j \in Rows : emitted[j] = i

\* Whether a template field belongs to the mapped or the auto-image group.
InGroup(f) == f.key \in KeysOf(mapped_fields) \cup KeysOf(auto_image_fields)

GroupFields == {i \in 1..Len(tpl.fields) : InGroup(tpl.fields[i])}

FieldOfKey(k) == CHOOSE i \in 1..Len(tpl.fields) : tpl.fields[i].key = k

\* The output column of the field with key k: its rank among the fields of
\* the two groups, in template order.
ColumnOf(k) == Cardinality({i \in GroupFields : i <= FieldOfKey(k)})

ValueAt(j, k) == RowCells(j)[ColumnOf(k)]

\* A column name that no header of the table matches, exactly or ignoring case.
Absent(name) ==
    \A i \in 1..Len(df.columns) :
        df.columns[i] # name /\ lower(df.columns[i]) # lower(name)

\* The trimmed cell of row i in the column that name resolves to.
Cell(name, i) == strip(iloc(df, get_col(df, name), i))

Min(S) == CHOOSE x \in S : \A y \in S : x <= y

TemplateKnown == request.templateKey \in DOMAIN read_templates

MappingIsJson == request.mapping.text = "json"

CleanupIsBadJson == request.textCleanup.text = "bad"

\* The required field is outside the mapped group: the mapping omits its
\* key, maps it to the empty name, or the field is an auto-image field.
RequiredNotMapped ==
    LET t == read_templates[request.templateKey]
        rk == required_key_of(t)
        mo == request.mapping.value
    IN  \/ rk \notin DOMAIN mo
        \/ mo[rk] = ""
        \/ \E i \in 1..Len(t.fields) :
              /\ t.fields[i].key = rk
              /\ t.fields[i].type = "image"
              /\ t.fields[i].autoMap # <<>>

Rejected == pc = "error" /\ status = 400 /\ out = <<>> /\ emitted = <<>>

\* The source name the request's mapping gives the required field.
RequiredSource == request.mapping.value[required_key]

RequiredCell(i) == IF Absent(RequiredSource) THEN <<>> ELSE Cell(RequiredSource, i)

DropsBlank == required_key \in drop_if_blank_of(tpl)

\* ------------------------------------------------------------------ claims

\* C1: every emitted row has as many values as the header has labels; the
\* header streamed is the header computed; the header holds one label per
\* field of the mapped and auto-image groups and none of an unmapped field.
C1_HeaderRowSync ==
    /\ \A j \in Rows : Len(RowCells(j)) = Len(output_headers)
    /\ Len(out) >= 2 => out[2].cells = output_headers
    /\ Len(output_headers) = Cardinality(GroupFields)
    /\ \A i \in 1..Len(tpl.fields) :
          InGroup(tpl.fields[i])
              <=> tpl.fields[i].label \in SeqToSet(output_headers)

\* C1 witness: a finished stream with rows, under a template that has
\* mapped, auto-image and unmapped fields.
C1_Witness ==
    /\ pc = "done"
    /\ Len(emitted) = MaxRows
    /\ mapped_fields # <<>>
    /\ auto_image_fields # <<>>
    /\ Cardinality(GroupFields) < Len(tpl.fields)

\* C2: of the table rows rows_iter has passed, one with a blank required
\* value is in the output iff the required key is not in dropRowIfBlankKeys,
\* one with a non-blank required value always is, and the emitted rows keep
\* the order of the table.
C2_DropRule ==
    status = 200 =>
        /\ \A i \in 0..(idx - 1) :
              IsEmitted(i) <=> (RequiredCell(i) # <<>> \/ ~DropsBlank)
        /\ \A j \in Rows : emitted[j] < idx
        /\ \A a, b \in Rows : a < b => emitted[a] < emitted[b]

\* C2 witness: a finished stream where a blank row was dropped and a later
\* row was emitted.
C2_Witness ==
    /\ pc = "done"
    /\ DropsBlank
    /\ \E i \in RowIndices :
          /\ RequiredCell(i) = <<>>
          /\ ~IsEmitted(i)
          /\ \E k \in RowIndices : k > i /\ IsEmitted(k)

\* C3: when the required field is not in the mapped group the request ends
\* with status 400 and no chunk is ever streamed.
C3_RequiredFieldRejected ==
    (pc # "idle" /\ TemplateKnown /\ MappingIsJson /\ RequiredNotMapped) => Rejected

\* C3 witness: a request with rows to emit, rejected because the mapping gives
\* the required field the empty source name.
C3_Witness ==
    /\ pc = "error"
    /\ TemplateKnown
    /\ MappingIsJson
    /\ required_key_of(read_templates[request.templateKey]) \in DOMAIN request.mapping.value
    /\ RequiredNotMapped
    /\ request.file.n = MaxRows

\* A mapped field whose source name is not variant-level and resolves.
IsProductLevel(m) == m.src \notin VARIANT_LEVEL_SHOPIFY_HEADERS /\ ~Absent(m.src)

\* The table rows of the product of row e that have a value for source name.
RowsWithValue(name, e) ==
    {i \in RowIndices : handle_series[i + 1] = handle_series[e + 1] /\ Cell(name, i) # <<>>}

\* C4: an emitted row carries, for a product-level mapped field, the trimmed
\* value of the earliest table row of its handle that has one, wherever that
\* row stands in the table and whether or not the drop rule skips it.
C4_FirstWins ==
    status = 200 =>
        \A j \in Rows : \A k \in 1..Len(mapped_fields) :
            LET m == mapped_fields[k]
            IN  (IsProductLevel(m) /\ RowsWithValue(m.src, emitted[j]) # {}) =>
                    ValueAt(j, m.key) = Cell(m.src, Min(RowsWithValue(m.src, emitted[j])))

\* C4 witness: an emitted row takes its value from a later row of the same
\* handle that the drop rule skipped, which differs from a third value of
\* that handle further down or from the row's own blank cell.
C4_Witness ==
    /\ pc = "done"
    /\ \E j \in Rows : \E k \in 1..Len(mapped_fields) :
          LET m == mapped_fields[k]
              first == Min(RowsWithValue(m.src, emitted[j]))
          IN  /\ IsProductLevel(m)
              /\ RowsWithValue(m.src, emitted[j]) # {}
              /\ first > emitted[j]
              /\ ~IsEmitted(first)
              /\ ValueAt(j, m.key) # <<>>

ImageColumnsPresent ==
    ~Absent("Handle") /\ ~Absent("Image Src") /\ ~Absent("Image Position")

\* Row i is a source of the index entry (h, p) -> url.
IsImageSource(i, h, p, url) ==
    /\ Cell("Handle", i) = h
    /\ Cell("Image Src", i) = url
    /\ int_float(Cell("Image Position", i)).ok
    /\ int_float(Cell("Image Position", i)).v = p

\* C5: every entry of the image index has a position in 1..5, a non-blank
\* handle and url, and a table row it comes from whose position parsed to
\* that number; the index is empty when one of the three columns is absent.
C5_ImageBounds ==
    /\ \A h \in DOMAIN images : \A p \in DOMAIN images[h] :
          /\ p \in MinImagePos..MaxImagePos
          /\ h # <<>>
          /\ images[h][p] # <<>>
          /\ \E i \in RowIndices : IsImageSource(i, h, p, images[h][p])
    /\ ~ImageColumnsPresent => images = EmptyDict

\* C5 witness: an index with an entry, built from a table that also has a
\* row with handle and url whose position is a number outside 1..5.
C5_Witness ==
    /\ status = 200
    /\ images # EmptyDict
    /\ \E i \in RowIndices :
          /\ Cell("Handle", i) # <<>>
          /\ Cell("Image Src", i) # <<>>
          /\ int_float(Cell("Image Position", i)).ok
          /\ int_float(Cell("Image Position", i)).v \notin MinImagePos..MaxImagePos

\* C6 as claimed: an unknown templateKey, a mapping that is no JSON and a
\* cleanup field that is no JSON each end the request with a client error
\* and no output.
C6_AllConfigErrorsRejected ==
    (pc # "idle" /\ (~TemplateKnown \/ ~MappingIsJson \/ CleanupIsBadJson)) => Rejected

\* C6 as amended: an unknown templateKey and a mapping that is no JSON end
\* the request with their client error and no output; a cleanup field that
\* is no JSON is no error: no column is cleaned, and the request succeeds or
\* fails as the required-field rule alone decides.
C6_ConfigErrors ==
    pc # "idle" =>
        /\ ~TemplateKnown => (Rejected /\ detail = <<"Unknown templateKey">>)
        /\ (TemplateKnown /\ ~MappingIsJson) =>
               (Rejected /\ detail = <<"Invalid mapping JSON">>)
        /\ (TemplateKnown /\ MappingIsJson /\ CleanupIsBadJson) =>
               /\ status = 200 <=> ~RequiredNotMapped
               /\ status = 200 =>
                      cleanup_cols = <<>> /\ df = normalize_headers(request.file)

\* C6 witness: a finished stream with rows for a request whose cleanup field
\* is no JSON.
C6_Witness ==
    /\ pc = "done"
    /\ CleanupIsBadJson
    /\ Len(emitted) = MaxRows
    /\ Len(out) = MaxRows + 2

\* The mapped fields whose source name is absent from the table.
AbsentMapped == {k \in 1..Len(mapped_fields) : Absent(mapped_fields[k].src)}

\* The table with one more column of that name, empty in every row.
WithEmptyColumn(table, name) ==
    [columns |-> Append(table.columns, name),
     n |-> table.n,
     data |-> (name :> [i \in 1..table.n |-> <<>>]) @@ table.data]

\* The rows of the first k table rows that the drop rule keeps, for a table
\* with these handles, image index and product values.
RECURSIVE RowsWith(_, _, _, _, _)
RowsWith(table, handles, imgs, product, k) ==
    IF k = 0 THEN <<>>
    ELSE RowsWith(table, handles, imgs, product, k - 1) \o
         (IF row_dropped(sku_val_of(table, mapped_fields, required_key, k - 1),
                         required_key, drop_if_blank)
          THEN <<>>
          ELSE <<out_row_of(tpl.fields, table, imgs, product, mapped_fields,
                            auto_image_fields, handles[k], k - 1)>>)

\* The rows the stream of this request would carry after k table rows had
\* the upload been table.
RowsFor(table, k) ==
    RowsWith(table, handle_series_of(table), collect_images(table),
             product_values_of(table, handle_series_of(table), mapped_fields), k)

\* The rows streamed so far.
StreamedRows == [j \in Rows |-> RowCells(j)]

\* The stream is what it would be with the absent column present and empty.
AsIfEmptyColumn(name) == StreamedRows = RowsFor(WithEmptyColumn(df, name), idx)

\* What the claim lists for a mapped field whose source column is absent:
\* the request does not fail, the header keeps the label, every emitted row
\* has the empty string there, and a required field counts as blank in every
\* row for the drop rule.
AbsentColumnReadsEmpty ==
    /\ (pc # "idle" /\ TemplateKnown /\ MappingIsJson /\ ~RequiredNotMapped) => status = 200
    /\ \A k \in AbsentMapped :
          LET m == mapped_fields[k]
          IN  /\ output_headers[ColumnOf(m.key)] = m.label
              /\ \A j \in Rows : ValueAt(j, m.key) = <<>>
              /\ m.key = required_key =>
                     \A i \in 0..(idx - 1) : IsEmitted(i) <=> ~DropsBlank

\* C7 as claimed: with a mapped source column absent, the request behaves
\* exactly as if the column were there with an empty string in every row.
C7_ExactlyAsIfEmpty ==
    /\ AbsentColumnReadsEmpty
    /\ \A k \in AbsentMapped : AsIfEmptyColumn(mapped_fields[k].src)

\* C7 as amended: the same, except that the whole stream is as if the column
\* were there and empty only for a column other than Handle; an absent
\* Handle gives every row its own placeholder handle, an empty Handle column
\* would put all rows under one blank handle.
C7_AbsentColumnIsEmpty ==
    /\ AbsentColumnReadsEmpty
    /\ \A k \in AbsentMapped :
          lower(mapped_fields[k].src) # "handle" => AsIfEmptyColumn(mapped_fields[k].src)

\* C7 witness: a finished stream with rows, where the source column of the
\* required field is absent and another column of the same row is not blank.
C7_Witness ==
    /\ pc = "done"
    /\ Len(emitted) = MaxRows
    /\ \E k \in AbsentMapped : mapped_fields[k].key = required_key
    /\ \E c \in DOMAIN df.data : strip(df.data[c][1]) # <<>>

\* The url the image index holds for the trimmed handle h and position p.
IndexedUrl(h, p) ==
    IF strip(h) \in DOMAIN images /\ p \in DOMAIN images[strip(h)]
    THEN images[strip(h)][p] ELSE <<>>

\* C8: every emitted row carries, for every auto-image field, the url the
\* image index holds for the row's handle (trimmed, as the index keys it)
\* and the field's position, and the empty string when there is none.
C8_ImageByHandle ==
    status = 200 =>
        \A j \in Rows : \A a \in 1..Len(auto_image_fields) :
            ValueAt(j, auto_image_fields[a].key)
                = IndexedUrl(handle_series[emitted[j] + 1], auto_image_fields[a].pos)

\* C9: a mapped field whose source name resolves, exactly or ignoring case,
\* to a column whose header is variant-level carries in every emitted row
\* the trimmed cell of that column at the row's own index.
C9_VariantPerRow ==
    status = 200 =>
        \A j \in Rows : \A k \in 1..Len(mapped_fields) :
            LET m == mapped_fields[k]
                col == get_col(df, m.src)
            IN  (col # None /\ col[1] \in VARIANT_LEVEL_SHOPIFY_HEADERS) =>
                    ValueAt(j, m.key) = strip(iloc(df, col, emitted[j]))

\* C10: when the required key is in dropRowIfBlankKeys no emitted row is
\* blank in the required field's output column.
C10_RequiredNeverBlank ==
    (status = 200 /\ DropsBlank) =>
        \A j \in Rows : strip(ValueAt(j, required_key)) # <<>>

\* C10 witness: placeholder handles, a product-level source for the required
\* field, a dropped row and an emitted row.
C10_Witness ==
    /\ pc = "done"
    /\ DropsBlank
    /\ Absent("Handle")
    /\ IsProductLevel(first_with_key(mapped_fields, required_key)[1])
    /\ \E i \in RowIndices : ~IsEmitted(i)
    /\ emitted # <<>>

====
